---- MODULE Spec2Model ----
(***************************************************************************)
(* A model of mcomix/mage.py: the Mage image container (original layer,   *)
(* derived cache layer, metadata) and the operations on it, and of         *)
(* find_executable of mcomix/process.py (a call and its result, in fe).    *)
(*                                                                         *)
(* A bitmap (PIL image object) is a record [id, k]: id is the identity of  *)
(* the object, k indexes Images, the description of what the object        *)
(* carries (size, info dictionary).  `closed` is the set of held bitmaps   *)
(* on which close() was called.  Every handler is one action; the order    *)
(* of the steps inside the handler is recorded in `log`, its outcome       *)
(* (exception raised, value returned) in `last`.                           *)
(***************************************************************************)
EXTENDS Integers, Sequences, FiniteSets, TLC

VARIABLES im, frames, loop, bgcolor, icc, exif,
          cache, cache_frames, bg, rotation, filter, size, thumbnail,
          closed, log, last, pre, fe

vars == <<im, frames, loop, bgcolor, icc, exif,
          cache, cache_frames, bg, rotation, filter, size, thumbnail,
          closed, log, last, pre, fe>>

\* ---------------------------------------------------------------- bounds
\* add_frame is offered while fewer than MaxFrames frames are held.
MaxFrames == 2
\* find_executable is called with at most MaxCandidates candidates.
MaxCandidates == 2

\* ---------------------------------------------------------------- values
\* Python's None for a bitmap, a byte buffer, a size.
None == [id |-> 0, k |-> 0]
NoIcc == "None"
NoSize == <<>>
NoFilter == "None"

RangeOf(s) == {s[i] : i \in 1..Len(s)}

HexDigits == {"0","1","2","3","4","5","6","7","8","9","a","b","c","d","e","f"}
Digits == {"0","1","2","3","4","5","6","7","8","9"}

HexVal(c) ==
    CASE c = "0" -> 0 [] c = "1" -> 1 [] c = "2" -> 2 [] c = "3" -> 3
      [] c = "4" -> 4 [] c = "5" -> 5 [] c = "6" -> 6 [] c = "7" -> 7
      [] c = "8" -> 8 [] c = "9" -> 9 [] c = "a" -> 10 [] c = "b" -> 11
      [] c = "c" -> 12 [] c = "d" -> 13 [] c = "e" -> 14 [] c = "f" -> 15

\* int(size): the decimal value of a line of digits; a ValueError otherwise.
RECURSIVE DecVal(_)
DecVal(line) ==
    IF line = <<>> THEN 0
    ELSE 10 * DecVal(SubSeq(line, 1, Len(line) - 1)) + HexVal(line[Len(line)])

int_ok(line) == line # <<>> /\ \A i \in 1..Len(line) : line[i] \in Digits

\* ''.join(lines)
RECURSIVE join(_)
join(lines) == IF lines = <<>> THEN <<>> ELSE Head(lines) \o join(Tail(lines))

\* unhexlify(text): binascii.Error on an odd length or a non-hex digit,
\* otherwise one byte per pair of digits.
unhexlify_ok(text) ==
    /\ Len(text) % 2 = 0
    /\ \A i \in 1..Len(text) : text[i] \in HexDigits

unhexlify(text) ==
    [i \in 1..(Len(text) \div 2) |-> 16 * HexVal(text[2*i - 1]) + HexVal(text[2*i])]

\* The lines of text used in the legacy exif blocks below.
L_profile == <<"p">>
L_exif == <<"e","x","i","f">>
L_icc == <<"i","c","c">>

\* What a decoded image object can carry: its size, info['icc_profile'],
\* the entries of its native exif accessor, and info['Raw profile type
\* exif'] as the list of its lines (hasraw = FALSE: the key is absent).
Images == <<
    [size |-> <<1,1>>, icc |-> NoIcc, native |-> {}, hasraw |-> FALSE, raw |-> <<>>],
    [size |-> <<2,1>>, icc |-> "iccA", native |-> {<<274, 6>>}, hasraw |-> FALSE, raw |-> <<>>],
    [size |-> <<1,2>>, icc |-> "iccB", native |-> {}, hasraw |-> TRUE,
     raw |-> <<L_profile, L_exif, <<"2">>, <<"0","a">>, <<"0","b">> >>],
    [size |-> <<2,2>>, icc |-> NoIcc, native |-> {}, hasraw |-> TRUE,
     raw |-> <<L_profile, L_exif, <<"1">>, <<"z","z">> >>],
    [size |-> <<2,2>>, icc |-> NoIcc, native |-> {}, hasraw |-> TRUE,
     raw |-> <<L_profile, L_exif, <<"x">>, <<"0","a">> >>],
    [size |-> <<2,2>>, icc |-> NoIcc, native |-> {}, hasraw |-> TRUE,
     raw |-> <<L_profile, L_exif, <<"3">>, <<"0","a">> >>],
    [size |-> <<2,2>>, icc |-> NoIcc, native |-> {}, hasraw |-> TRUE,
     raw |-> <<L_profile, L_exif>>],
    [size |-> <<2,2>>, icc |-> NoIcc, native |-> {}, hasraw |-> TRUE,
     raw |-> <<L_profile, L_icc, <<"1">>, <<"0","a">> >>]
>>

\* The image object _pixbuf2pil builds: Image.frombuffer gives an empty info.
PixbufKind == 1

\* Encoded inputs of load: whether the primary (PIL) and the fallback
\* (GdkPixbuf) decoder accept the data, what PIL reports (is_animated,
\* n_frames, format == 'GIF' and mode == 'P', info['loop']) and the kind of
\* the image object PIL decodes.
Datas == <<
    [pil |-> TRUE,  gdk |-> TRUE,  animated |-> FALSE, n_frames |-> 1, gifp |-> FALSE,
     hasloop |-> FALSE, loop |-> FALSE, k |-> 2],
    [pil |-> FALSE, gdk |-> TRUE,  animated |-> FALSE, n_frames |-> 1, gifp |-> FALSE,
     hasloop |-> FALSE, loop |-> FALSE, k |-> 1],
    [pil |-> FALSE, gdk |-> FALSE, animated |-> FALSE, n_frames |-> 1, gifp |-> FALSE,
     hasloop |-> FALSE, loop |-> FALSE, k |-> 1],
    [pil |-> TRUE,  gdk |-> FALSE, animated |-> TRUE,  n_frames |-> 2, gifp |-> FALSE,
     hasloop |-> TRUE,  loop |-> TRUE,  k |-> 3],
    [pil |-> TRUE,  gdk |-> TRUE,  animated |-> TRUE,  n_frames |-> 2, gifp |-> TRUE,
     hasloop |-> TRUE,  loop |-> TRUE,  k |-> 1],
    [pil |-> TRUE,  gdk |-> TRUE,  animated |-> FALSE, n_frames |-> 1, gifp |-> FALSE,
     hasloop |-> FALSE, loop |-> FALSE, k |-> 4]
>>

\* Inputs of the setters and of add_frame.
RotationInputs == {0, 90, 45}
SizeInputs == {<<1,1>>, <<2,1>>}
DurationInputs == {40}
ImageInputs == {2, 4}

\* ---------------------------------------------------------------- state
\* The Mage as one record, so that a handler is a function of the Mage.
Self ==
    [im |-> im, frames |-> frames, loop |-> loop, bgcolor |-> bgcolor,
     icc |-> icc, exif |-> exif, cache |-> cache, cache_frames |-> cache_frames,
     bg |-> bg, rotation |-> rotation, filter |-> filter, size |-> size,
     thumbnail |-> thumbnail, closed |-> closed,
     log |-> <<>>, err |-> "", ret |-> <<>>]

\* The bitmaps the Mage refers to.
Refs(s) ==
    ({s.im, s.cache, s.thumbnail} \ {None})
        \cup {s.frames[i].im : i \in 1..Len(s.frames)}
        \cup {s.cache_frames[i].im : i \in 1..Len(s.cache_frames)}

RefIds(s) == {b.id : b \in Refs(s)}

\* The n-th identity (n >= 1) that no bitmap of the Mage has: a new object.
RECURSIVE NthFree(_, _, _)
NthFree(used, n, c) ==
    IF c \in used THEN NthFree(used, n, c + 1)
    ELSE IF n = 1 THEN c ELSE NthFree(used, n - 1, c + 1)

Fresh(s, n, k) == [id |-> NthFree(RefIds(s), n, 1), k |-> k]

Ev(e, b) == [e |-> e, b |-> b]

\* im.close()
Close(s, b) ==
    [s EXCEPT !.closed = @ \cup {b}, !.log = Append(@, Ev("close", b.id))]

Note(s, e) == [s EXCEPT !.log = Append(@, Ev(e, 0))]

Raise(s, e) == [s EXCEPT !.err = e]

\* dict.update
DictUpdate(d, e) == {p \in d : ~\E q \in e : q[1] = p[1]} \cup e

\* ---------------------------------------------------------------- _getexif
\* im.getexif() on the bytes re-injected as info['exif']: the entries the
\* image library decodes from them (here: one entry per byte).
pil_getexif(data) == {<<273 + i, data[i]>> : i \in 1..Len(data)}

\* _getexif(im) for an image object of kind k: [err, exif].  err is the
\* exception that leaves the function, "" when it returns.  (The bytes it
\* stores in im.info['exif'] are read by nothing but the call itself.)
_getexif(k) ==
    LET I == Images[k]
        ok(e) == [err |-> "", exif |-> e]
    IN  IF I.native # {} THEN ok(I.native)                       \* l.20-25
        ELSE IF ~I.hasraw THEN ok({})       \* None.splitlines(): caught, l.30
        ELSE IF Len(I.raw) < 3 THEN ok({})  \* unpacking fails: caught, l.30
        ELSE LET l2 == I.raw[2]
                 sz == I.raw[3]
                 lines == SubSeq(I.raw, 4, Len(I.raw))
                 text == join(lines)
             IN  IF l2 # L_exif THEN ok({})                      \* l.33-35
                 ELSE IF ~unhexlify_ok(text)                     \* l.36
                      THEN [err |-> "binascii.Error", exif |-> {}]
                 ELSE IF ~int_ok(sz)                             \* l.36
                      THEN [err |-> "ValueError", exif |-> {}]
                 ELSE IF Len(unhexlify(text)) # DecVal(sz) THEN ok({})
                 ELSE ok(pil_getexif(unhexlify(text)))           \* l.39-46

\* ---------------------------------------------------------------- frames
\* purge_frames emptying the list without closing what it held.
purge_frames_unclosed(s) == [s EXCEPT !.frames = <<>>]

\* Mage.purge_frames: pop from the end and close, until empty.
RECURSIVE purge_frames(_)
purge_frames(s) ==
    IF s.frames = <<>> THEN s
    ELSE LET n == Len(s.frames)
             b == s.frames[n].im
         IN  purge_frames(Close([s EXCEPT !.frames = SubSeq(@, 1, n - 1)], b))

\* Mage.add_frame
add_frame(s, frame, duration) ==
    [s EXCEPT !.frames = Append(@, [im |-> frame, duration |-> duration])]

\* ---------------------------------------------------------------- cache
RECURSIVE pop_cache_frames(_)
pop_cache_frames(s) ==
    IF s.cache_frames = <<>> THEN s
    ELSE LET n == Len(s.cache_frames)
             b == s.cache_frames[n].im
         IN  pop_cache_frames(
                 Close([s EXCEPT !.cache_frames = SubSeq(@, 1, n - 1)], b))

\* purge_cache releasing the thumbnail along with the cache.
purge_cache_and_thumbnail(s) ==
    LET r == IF s.cache # None
             THEN pop_cache_frames(Close([s EXCEPT !.cache = None], s.cache))
             ELSE s
    IN  IF r.thumbnail # None
        THEN Close([r EXCEPT !.thumbnail = None], r.thumbnail)
        ELSE r

\* Mage.purge_cache: the frames are popped inside the test on _cache.
purge_cache(s) ==
    IF s.cache # None
    THEN pop_cache_frames(Close([s EXCEPT !.cache = None], s.cache))
    ELSE s

\* ---------------------------------------------------------------- image
\* The image getter without its test: it hands out whatever _im holds.
image_getter_unchecked(s) == [s EXCEPT !.ret = <<s.im.k>>]

\* The image getter.
image_getter(s) ==
    IF s.im = None THEN Raise(s, "ValueError: image is not loaded")
    ELSE [s EXCEPT !.ret = <<s.im.k>>]

\* The image setter, new being the image object assigned.
image_setter(s, new) ==
    LET s1 == IF s.im # None
              THEN purge_frames(
                       Note([Close(Note([s EXCEPT !.im = None], "im=None"), s.im)
                                EXCEPT !.exif = {}], "exif.clear"))
              ELSE s
        s2 == Note(Note(Note([s1 EXCEPT !.im = new, !.bgcolor = 0,
                                        !.icc = Images[new.k].icc],
                             "im="), "bgcolor="), "icc=")
        g == _getexif(new.k)
    IN  IF g.err # "" THEN Raise(s2, g.err)
        ELSE Note(Note([s2 EXCEPT !.exif = DictUpdate(@, g.exif),
                                  !.size = Images[new.k].size],
                       "exif.update"), "size=")

\* Mage.original_size: self.image.size
original_size(s) ==
    LET r == image_getter(s)
    IN  IF r.err # "" THEN r ELSE [r EXCEPT !.ret = Images[s.im.k].size]

\* ---------------------------------------------------------------- setters
\* The size setter is declared def size(self, width, height); an
\* assignment mage.size = v calls it with the single value v, so the call
\* fails on the missing argument before the body runs.
size_setter(s, v) == Raise(s, "TypeError")

\* The rotation setter without the purge of the cache.
rotation_setter_keeps_cache(s, r) == Note([s EXCEPT !.rotation = r], "rotation=")

\* The rotation setter.
rotation_setter(s, r) ==
    Note([(IF r # s.rotation THEN purge_cache(s) ELSE s) EXCEPT !.rotation = r],
         "rotation=")

\* ---------------------------------------------------------------- load
\* Mage._load_fallback(data, animation, n_frames) for the input Datas[d].
_load_fallback(s, d, animation, n_frames) ==
    IF ~Datas[d].gdk THEN Raise(s, "GLib.Error")                 \* l.182
    ELSE IF ~animation \/ n_frames < 2
         THEN image_setter(s, Fresh(s, 1, PixbufKind))           \* l.186
         ELSE LET r == image_setter(s, Fresh(s, 1, PixbufKind))  \* l.188
              IN  IF r.err # "" THEN r
                  ELSE Raise(r, "NameError")     \* l.189: GLib is not bound

\* Mage.load(data, enable_anime) for the input Datas[d].
load(s, d, enable_anime) ==
    LET D == Datas[d]
    IN  IF ~D.pil THEN _load_fallback(s, d, FALSE, 1)            \* l.208
        ELSE IF ~(enable_anime /\ D.animated)
             THEN image_setter(s, Fresh(s, 1, D.k))              \* l.210
        ELSE IF D.gifp
             THEN LET r == _load_fallback(s, d, TRUE, D.n_frames)   \* l.215
                  IN  IF r.err # "" THEN r
                      ELSE IF ~D.hasloop THEN Raise(r, "KeyError")  \* l.225
                      ELSE Note([r EXCEPT !.loop = D.loop], "loop=")
        ELSE Raise(s, "NameError")      \* l.217: ImageSequence is not bound

\* ---------------------------------------------------------------- cache property
\* The cache getter and setter of the source.
cache_getter(s) == Raise(s, "NotImplementedError")

cache_setter(s, b) == Raise(s, "NotImplementedError")

\* The synthesis of the derived layer that the specification (4.3) gives to
\* the completed getter: one new bitmap rendered from the original, one per
\* frame (a rendering carries no metadata of its own).
RECURSIVE synth_frames(_, _)
synth_frames(s, i) ==
    IF i > Len(s.frames) THEN s
    ELSE synth_frames(
             [s EXCEPT !.cache_frames =
                  Append(@, [im |-> Fresh(s, 1, PixbufKind),
                             duration |-> s.frames[i].duration])], i + 1)

build_cache(s) ==
    synth_frames([s EXCEPT !.cache = Fresh(s, 1, PixbufKind)], 1)

\* ---------------------------------------------------------------- actions
\* Identities are interchangeable, so every state is kept in one numbering:
\* the bitmaps the Mage holds are numbered in the order im, frames, cache,
\* cache_frames, thumbnail; after them the bitmaps the handler closed and
\* dropped, then those only the Mage before the call held.
HeldSeq(s) ==
    <<s.im>> \o [i \in 1..Len(s.frames) |-> s.frames[i].im]
        \o <<s.cache>> \o [i \in 1..Len(s.cache_frames) |-> s.cache_frames[i].im]
        \o <<s.thumbnail>>

IdSeq(s, p) ==
    [i \in 1..Len(HeldSeq(s)) |-> HeldSeq(s)[i].id]
        \o [i \in 1..Len(s.log) |-> s.log[i].b]
        \o [i \in 1..Len(HeldSeq(p)) |-> HeldSeq(p)[i].id]

Rank(ids, id) ==
    IF id = 0 THEN 0
    ELSE LET first == CHOOSE i \in 1..Len(ids) :
                          ids[i] = id /\ \A j \in 1..(i - 1) : ids[j] # id
         IN  Cardinality({ids[j] : j \in 1..first} \ {0})

RenBitmap(ids, b) == [id |-> Rank(ids, b.id), k |-> b.k]

RenFrames(ids, fs) ==
    [i \in 1..Len(fs) |-> [im |-> RenBitmap(ids, fs[i].im), duration |-> fs[i].duration]]

\* The fields of the Mage, renumbered.
RenMage(ids, s) ==
    [im |-> RenBitmap(ids, s.im), frames |-> RenFrames(ids, s.frames),
     loop |-> s.loop, bgcolor |-> s.bgcolor, icc |-> s.icc, exif |-> s.exif,
     cache |-> RenBitmap(ids, s.cache),
     cache_frames |-> RenFrames(ids, s.cache_frames),
     bg |-> s.bg, rotation |-> s.rotation, filter |-> s.filter, size |-> s.size,
     thumbnail |-> RenBitmap(ids, s.thumbnail),
     closed |-> {RenBitmap(ids, b) : b \in s.closed \cap Refs(s)}]

\* The Mage after a handler returned or raised: s is the Mage it leaves,
\* op and arg name the call.  pre keeps the Mage as the call found it.
\* Bitmaps that nothing holds any more are dropped from closed.
Becomes(s, op, arg) ==
    \E r \in {s} :
    \E ids \in {IdSeq(r, Self)} :
    \E m \in {RenMage(ids, r)} :
        /\ im' = m.im
        /\ frames' = m.frames
        /\ loop' = m.loop
        /\ bgcolor' = m.bgcolor
        /\ icc' = m.icc
        /\ exif' = m.exif
        /\ cache' = m.cache
        /\ cache_frames' = m.cache_frames
        /\ bg' = m.bg
        /\ rotation' = m.rotation
        /\ filter' = m.filter
        /\ size' = m.size
        /\ thumbnail' = m.thumbnail
        /\ closed' = m.closed
        /\ log' = [i \in 1..Len(r.log) |-> Ev(r.log[i].e, Rank(ids, r.log[i].b))]
        /\ last' = [op |-> op, arg |-> arg, err |-> r.err, ret |-> r.ret]
        /\ pre' = RenMage(ids, Self)
        /\ fe' = fe

\* ---------------------------------------------------------------- find_executable
\* Candidate names, and the absolute path shutil.which resolves each to
\* when that file exists on the search path; a candidate that is already
\* an absolute path resolves to itself.
Names == {"unrar", "rar", "/usr/bin/unrar"}
Paths == {"/usr/bin/unrar", "/usr/bin/rar"}
NoPath == "None"

AbsPath(name) ==
    CASE name = "unrar" -> "/usr/bin/unrar"
      [] name = "rar" -> "/usr/bin/rar"
      [] name = "/usr/bin/unrar" -> "/usr/bin/unrar"

\* shutil.which(name), exists being the executables on the search path.
which(name, exists) ==
    IF AbsPath(name) \in exists THEN AbsPath(name) ELSE NoPath

\* is_valid: the predicate given, or lambda exe: True.
is_valid(path, haspred, valid) == haspred => path \in valid

\* find_executable that never asks the validity predicate.
RECURSIVE find_executable_unvalidated(_, _, _, _)
find_executable_unvalidated(candidates, exists, haspred, valid) ==
    IF candidates = <<>> THEN NoPath
    ELSE IF which(Head(candidates), exists) = NoPath
         THEN find_executable_unvalidated(Tail(candidates), exists, haspred, valid)
         ELSE Head(candidates)

\* find_executable(candidates, is_valid_candidate=...)
RECURSIVE find_executable(_, _, _, _)
find_executable(candidates, exists, haspred, valid) ==
    IF candidates = <<>> THEN NoPath                              \* l.95
    ELSE LET name == Head(candidates)
             path == which(name, exists)                          \* l.88
             rest == find_executable(Tail(candidates), exists, haspred, valid)
         IN  IF path = NoPath THEN rest                           \* l.89-90
             ELSE IF ~is_valid(path, haspred, valid) THEN rest    \* l.91-92
             ELSE name                                            \* l.93

RECURSIVE SeqsUpTo(_, _)
SeqsUpTo(S, n) ==
    IF n = 0 THEN {<<>>}
    ELSE SeqsUpTo(S, n - 1)
             \cup {Append(q, x) : q \in {p \in SeqsUpTo(S, n - 1) : Len(p) = n - 1}, x \in S}

NoCall ==
    [candidates |-> <<>>, exists |-> {}, haspred |-> FALSE, valid |-> {},
     done |-> FALSE, result |-> NoPath]

\* Mage.__init__
Init ==
    /\ im = None
    /\ frames = <<>>
    /\ loop = FALSE
    /\ bgcolor = 0
    /\ icc = NoIcc
    /\ exif = {}
    /\ cache = None
    /\ cache_frames = <<>>
    /\ bg = 0
    /\ rotation = 0
    /\ filter = NoFilter
    /\ size = NoSize
    /\ thumbnail = None
    /\ closed = {}
    /\ log = <<>>
    /\ last = [op |-> "__init__", arg |-> <<>>, err |-> "", ret |-> <<>>]
    /\ pre = RenMage(<<>>, Self)
    /\ fe = NoCall

GetImage ==
    /\ Becomes(image_getter(Self), "image", <<>>)

GetOriginalSize ==
    /\ Becomes(original_size(Self), "original_size", <<>>)

SetImage ==
    /\ \E k \in ImageInputs :
          Becomes(image_setter(Self, Fresh(Self, 1, k)), "image=", <<k>>)

\* add_frame with a new bitmap, or with the bitmap held as the original
\* (as load does with the first frame of an animation).
AddFrame ==
    /\ Len(frames) < MaxFrames
    /\ \E b \in {Fresh(Self, 1, PixbufKind)} \cup ({im} \ {None}),
          d \in DurationInputs :
            Becomes(add_frame(Self, b, d), "add_frame", <<IF b = im THEN 1 ELSE 0, d>>)

PurgeFrames ==
    /\ Becomes(purge_frames(Self), "purge_frames", <<>>)

PurgeCache ==
    /\ Becomes(purge_cache(Self), "purge_cache", <<>>)

GetCache ==
    /\ Becomes(cache_getter(Self), "cache", <<>>)

SetCache ==
    /\ Becomes(cache_setter(Self, Fresh(Self, 1, PixbufKind)), "cache=", <<PixbufKind>>)

BuildCache ==
    /\ im # None
    /\ cache = None
    /\ Becomes(build_cache(Self), "build_cache", <<>>)

\* The thumbnail path of the specification (4.4): a small bitmap made from
\* the original and held in _thumbnail, which no method of the source sets.
build_thumbnail(s) == [s EXCEPT !.thumbnail = Fresh(s, 1, PixbufKind)]

BuildThumbnail ==
    /\ im # None
    /\ thumbnail = None
    /\ Becomes(build_thumbnail(Self), "build_thumbnail", <<>>)

SetSize ==
    /\ \E v \in SizeInputs : Becomes(size_setter(Self, v), "size=", v)

SetRotation ==
    /\ \E r \in RotationInputs : Becomes(rotation_setter(Self, r), "rotation=", <<r>>)

Load ==
    /\ \E d \in 1..Len(Datas), a \in BOOLEAN :
          Becomes(load(Self, d, a), "load", <<d, IF a THEN 1 ELSE 0>>)

Next ==
    \/ GetImage
    \/ GetOriginalSize
    \/ SetImage
    \/ AddFrame
    \/ PurgeFrames
    \/ PurgeCache
    \/ GetCache
    \/ SetCache
    \/ BuildCache
    \/ SetSize
    \/ SetRotation
    \/ Load

Spec == Init /\ [][Next]_vars

\* A call of find_executable: the arguments and the search path are drawn,
\* the one step is the call.
InitFind ==
    /\ im = None
    /\ frames = <<>>
    /\ loop = FALSE
    /\ bgcolor = 0
    /\ icc = NoIcc
    /\ exif = {}
    /\ cache = None
    /\ cache_frames = <<>>
    /\ bg = 0
    /\ rotation = 0
    /\ filter = NoFilter
    /\ size = NoSize
    /\ thumbnail = None
    /\ closed = {}
    /\ log = <<>>
    /\ last = [op |-> "__init__", arg |-> <<>>, err |-> "", ret |-> <<>>]
    /\ pre = RenMage(<<>>, Self)
    /\ fe \in [candidates : SeqsUpTo(Names, MaxCandidates), exists : SUBSET Paths,
                haspred : BOOLEAN, valid : SUBSET Paths,
                done : {FALSE}, result : {NoPath}]

FindExecutable ==
    /\ ~fe.done
    /\ fe' = [fe EXCEPT !.done = TRUE,
                        !.result = find_executable(fe.candidates, fe.exists,
                                                   fe.haspred, fe.valid)]
    /\ UNCHANGED <<im, frames, loop, bgcolor, icc, exif, cache, cache_frames, bg,
                   rotation, filter, size, thumbnail, closed, log, last, pre>>

SpecFind == InitFind /\ [][FindExecutable]_vars

\* purge_cache as a function of the fields: a Mage whose fields hold any
\* combination of original, frames, cache, cache_frames and thumbnail
\* (the fields are plain attributes), then calls of purge_cache.
Blank ==
    [im |-> None, frames |-> <<>>, loop |-> FALSE, bgcolor |-> 0,
     icc |-> NoIcc, exif |-> {}, cache |-> None, cache_frames |-> <<>>,
     bg |-> 0, rotation |-> 0, filter |-> NoFilter, size |-> NoSize,
     thumbnail |-> None, closed |-> {},
     log |-> <<>>, err |-> "", ret |-> <<>>]

FieldMage(hasIm, nf, hasCache, ncf, hasThumb, rot) ==
    LET b(i) == [id |-> i, k |-> PixbufKind]
        raw == [Blank EXCEPT
                   !.im = IF hasIm THEN b(1) ELSE None,
                   !.size = IF hasIm THEN Images[PixbufKind].size ELSE NoSize,
                   !.frames = [i \in 1..nf |-> [im |-> b(1 + i), duration |-> 0]],
                   !.cache = IF hasCache THEN b(2 + nf) ELSE None,
                   !.cache_frames =
                       [i \in 1..ncf |-> [im |-> b(2 + nf + i), duration |-> 0]],
                   !.thumbnail = IF hasThumb THEN b(3 + nf + ncf) ELSE None,
                   !.rotation = rot]
    IN  RenMage(IdSeq(raw, raw), raw)

InitPurge ==
    \E hasIm \in BOOLEAN, nf \in 0..MaxFrames, hasCache \in BOOLEAN,
       ncf \in 0..MaxFrames, hasThumb \in BOOLEAN, rot \in RotationInputs :
      \E m \in {FieldMage(hasIm, nf, hasCache, ncf, hasThumb, rot)} :
        /\ im = m.im
        /\ frames = m.frames
        /\ loop = m.loop
        /\ bgcolor = m.bgcolor
        /\ icc = m.icc
        /\ exif = m.exif
        /\ cache = m.cache
        /\ cache_frames = m.cache_frames
        /\ bg = m.bg
        /\ rotation = m.rotation
        /\ filter = m.filter
        /\ size = m.size
        /\ thumbnail = m.thumbnail
        /\ closed = m.closed
        /\ log = <<>>
        /\ last = [op |-> "__init__", arg |-> <<>>, err |-> "", ret |-> <<>>]
        /\ pre = m
        /\ fe = NoCall

SpecPurge == InitPurge /\ [][PurgeCache]_vars

\* The Mage with the thumbnail path: the writes to the original and to the
\* derived layer, and the making of the thumbnail.
NextThumb ==
    \/ SetImage
    \/ AddFrame
    \/ PurgeFrames
    \/ PurgeCache
    \/ BuildCache
    \/ BuildThumbnail
    \/ SetSize
    \/ SetRotation

SpecThumb == Init /\ [][NextThumb]_vars

\* ---------------------------------------------------------------- reading a state
\* The Mage now, with the fields of pre.
Cur ==
    [im |-> im, frames |-> frames, loop |-> loop, bgcolor |-> bgcolor,
     icc |-> icc, exif |-> exif, cache |-> cache, cache_frames |-> cache_frames,
     bg |-> bg, rotation |-> rotation, filter |-> filter, size |-> size,
     thumbnail |-> thumbnail, closed |-> closed]

\* Number of close() calls the last handler made on the bitmap id.
CloseCount(id) ==
    Cardinality({i \in 1..Len(log) : log[i] = Ev("close", id)})

NoClose == \A i \in 1..Len(log) : log[i].e # "close"

Logged(e) == \E i \in 1..Len(log) : log[i].e = e

\* The last handler closed the bitmap id, and did so before every step e.
ClosedBefore(id, e) ==
    \E i \in 1..Len(log) :
        /\ log[i] = Ev("close", id)
        /\ \A j \in 1..Len(log) : log[j].e = e => i < j

\* The step e1 of the last handler came before every step e2.
StepBefore(e1, e2) ==
    \E i \in 1..Len(log) :
        /\ log[i].e = e1
        /\ \A j \in 1..Len(log) : log[j].e = e2 => i < j

PreCacheIds ==
    ({pre.cache.id} \ {0})
        \cup {pre.cache_frames[i].im.id : i \in 1..Len(pre.cache_frames)}

PreFrameIds == {pre.frames[i].im.id : i \in 1..Len(pre.frames)}

NotLoaded == "ValueError: image is not loaded"

CanonicalRotations == {0, 90, 180, 270}

\* ---------------------------------------------------------------- claims
\* C1: for a Mage with a loaded image, assigning size the current (width,
\* height) leaves cache and cache_frames as they were and releases nothing;
\* assigning a different (width, height) releases cache and cache_frames
\* and leaves size equal to the assigned value.
C1_SizeAssign ==
    (last.op = "size=" /\ pre.im # None /\ pre.size # NoSize) =>
        IF last.arg = pre.size
        THEN cache = pre.cache /\ cache_frames = pre.cache_frames /\ NoClose
        ELSE /\ cache = None
             /\ cache_frames = <<>>
             /\ \A id \in PreCacheIds : CloseCount(id) >= 1
             /\ size = last.arg

\* C2: assigning rotation a value different from the current one closes the
\* cached bitmap and every cached frame, empties both, and does so before
\* the new rotation is stored; assigning the current value changes nothing
\* and closes nothing.
C2_RotationWrite ==
    last.op = "rotation=" =>
        /\ last.err = ""
        /\ rotation = last.arg[1]
        /\ IF last.arg[1] # pre.rotation
           THEN /\ cache = None
                /\ cache_frames = <<>>
                /\ \A id \in PreCacheIds :
                       CloseCount(id) = 1 /\ ClosedBefore(id, "rotation=")
                /\ Cur = [pre EXCEPT !.cache = None, !.cache_frames = <<>>,
                                     !.rotation = last.arg[1],
                                     !.closed = closed]
           ELSE Cur = pre /\ NoClose

C2_Witness ==
    /\ last.op = "rotation="
    /\ last.arg[1] # pre.rotation
    /\ pre.cache # None
    /\ Len(pre.cache_frames) >= 2
    /\ cache = None
    /\ rotation \in CanonicalRotations

\* C3: after an assignment of the original completes (through the image
\* setter or through load), cache is absent and cache_frames is empty.
C3_ImageWritePurgesCache ==
    (last.op \in {"image=", "load"} /\ last.err = "") =>
        cache = None /\ cache_frames = <<>>

\* C4: while the original is unset, frames is empty, exif is empty,
\* icc_profile is absent and background_color is 0.
C4_UnsetImpliesDefaults ==
    im = None => frames = <<>> /\ exif = {} /\ icc = NoIcc /\ bgcolor = 0

C6_CacheReadUnset ==
    (last.op = "cache" /\ pre.im = None) =>
        last.err = NotLoaded /\ Cur = pre

\* C7: the stored rotation is always one of 0, 90, 180, 270.
C7_RotationCanonical == rotation \in CanonicalRotations

\* C8: when an original is held and a new one is assigned, the old original
\* is closed, every held frame is closed and removed, the exif entries are
\* cleared, all before icc_profile, exif and size are set from the new
\* image; afterwards exif, icc_profile and size are those of the new image.
C8_ReplaceOriginal ==
    (last.op = "image=" /\ pre.im # None) =>
        LET k == last.arg[1]
            fills == {"icc=", "exif.update", "size="}
        IN  /\ \A e \in fills : ClosedBefore(pre.im.id, e)
            /\ \A id \in PreFrameIds : \A e \in fills : ClosedBefore(id, e)
            /\ frames = <<>>
            /\ \A e \in fills : StepBefore("exif.clear", e)
            /\ im.k = k
            /\ icc = Images[k].icc
            /\ exif = _getexif(k).exif
            /\ size = Images[k].size

\* C9: after a load that succeeds with enable_anime false, or of a source
\* that is not animated, frames is empty and the original is the single
\* decoded frame.
C9_StaticLoad ==
    LET D == Datas[last.arg[1]]
    IN  (last.op = "load" /\ last.err = "" /\ (last.arg[2] = 0 \/ ~D.animated)) =>
            /\ frames = <<>>
            /\ im # None
            /\ im \notin closed
            /\ im.k = (IF D.pil THEN D.k ELSE PixbufKind)

\* C10: loading an animated source of N frames with enable_anime true
\* leaves exactly N frames, the first of them the original, and loop as the
\* source gives it.
C10_AnimatedLoad ==
    LET D == Datas[last.arg[1]]
    IN  (last.op = "load" /\ last.arg[2] = 1 /\ D.pil /\ D.animated) =>
            /\ last.err = ""
            /\ Len(frames) = D.n_frames
            /\ frames[1].im = im
            /\ \A i \in 1..Len(frames) : frames[i].im.id \notin PreFrameIds
            /\ loop = D.loop

\* C11: load raises only if both decoders reject the data; whenever the
\* primary or the fallback decoder accepts it, load completes with the
\* original set.
C11_FallbackRecovers ==
    LET D == Datas[last.arg[1]]
    IN  last.op = "load" =>
            /\ (last.err # "" => (~D.pil /\ ~D.gdk))
            /\ ((D.pil \/ D.gdk) => (last.err = "" /\ im # None))

\* A legacy exif block that fails one of the validations: too few header
\* lines, a second line other than "exif", a size header that is no
\* number, a payload that is no hex text, a length other than the declared.
Malformed(k) ==
    LET I == Images[k]
        text == join(SubSeq(I.raw, 4, Len(I.raw)))
    IN  /\ I.native = {}
        /\ I.hasraw
        /\ \/ Len(I.raw) < 3
           \/ I.raw[2] # L_exif
           \/ ~int_ok(I.raw[3])
           \/ ~unhexlify_ok(text)
           \/ Len(text) # 2 * DecVal(I.raw[3])

\* C12: assigning an image whose legacy exif block is malformed completes
\* without an error and leaves exif empty.
C12_MalformedExifSwallowed ==
    (last.op = "image=" /\ Malformed(last.arg[1])) =>
        /\ last.err = ""
        /\ im.k = last.arg[1]
        /\ exif = {}

\* C13: writes to rotation and size and calls of purge_cache leave the
\* thumbnail as it was, neither replaced nor closed, and leave the
\* original, frames and exif as they were.
C13_ThumbnailIndependent ==
    last.op \in {"rotation=", "size=", "purge_cache"} =>
        /\ thumbnail = pre.thumbnail
        /\ CloseCount(pre.thumbnail.id) = 0
        /\ (thumbnail \in closed) = (pre.thumbnail \in pre.closed)
        /\ im = pre.im
        /\ frames = pre.frames
        /\ exif = pre.exif

C13_Witness ==
    /\ last.op = "purge_cache"
    /\ pre.thumbnail # None
    /\ pre.cache # None
    /\ pre.cache_frames # <<>>
    /\ cache = None
    /\ thumbnail = pre.thumbnail

\* The places in the candidate list of the candidates that are found on
\* the search path and that the validity predicate, if one is given, accepts.
GoodPlaces ==
    {i \in 1..Len(fe.candidates) :
        /\ AbsPath(fe.candidates[i]) \in fe.exists
        /\ fe.haspred => AbsPath(fe.candidates[i]) \in fe.valid}

FirstGood == CHOOSE i \in GoodPlaces : \A j \in GoodPlaces : i <= j

\* C14: find_executable returns the first candidate, in the order given,
\* that is found on the search path and valid (every found candidate being
\* valid when no predicate is given), and None exactly when there is none.
C14_FirstValidCandidate ==
    fe.done =>
        /\ (fe.result = NoPath) = (GoodPlaces = {})
        /\ GoodPlaces # {} => fe.result = fe.candidates[FirstGood]

C14_Witness ==
    /\ fe.done
    /\ fe.haspred
    /\ Len(fe.candidates) = 2
    /\ AbsPath(fe.candidates[1]) \in fe.exists
    /\ GoodPlaces = {2}
    /\ fe.result = fe.candidates[2]

\* C15: a result other than None is the absolute path the candidate was
\* resolved to on the search path, the path the predicate was asked about.
C15_ReturnsResolvedPath ==
    (fe.done /\ fe.result # NoPath) =>
        /\ GoodPlaces # {}
        /\ fe.result = AbsPath(fe.candidates[FirstGood])

\* Number of entries of the frame list fs that hold the bitmap id.
Entries(fs, id) == Cardinality({i \in 1..Len(fs) : fs[i].im.id = id})

\* C16 as stated: purge_frames closes every bitmap held in frames exactly
\* once and leaves frames empty; on an empty list it closes and changes
\* nothing.
C16_PurgeFramesOnce ==
    last.op = "purge_frames" =>
        /\ frames = <<>>
        /\ \A id \in PreFrameIds : CloseCount(id) = 1
        /\ pre.frames = <<>> => (Cur = pre /\ log = <<>>)

\* C16 as amended: purge_frames calls close once for every entry of frames,
\* so a bitmap held in several entries is closed once per entry; it closes
\* nothing else, leaves frames empty and every other field as it was; on an
\* empty list it closes and changes nothing.
C16_PurgeFramesPerEntry ==
    last.op = "purge_frames" =>
        /\ last.err = ""
        /\ frames = <<>>
        /\ \A id \in PreFrameIds : CloseCount(id) = Entries(pre.frames, id)
        /\ Len(log) = Len(pre.frames)
        /\ \A i \in 1..Len(log) : log[i].e = "close" /\ log[i].b \in PreFrameIds
        /\ Cur = [pre EXCEPT !.frames = <<>>, !.closed = closed]
        /\ pre.frames = <<>> => (Cur = pre /\ log = <<>>)

C16_Witness ==
    /\ last.op = "purge_frames"
    /\ Len(pre.frames) = 2
    /\ pre.frames[1].im # pre.frames[2].im
    /\ frames = <<>>
    /\ CloseCount(pre.frames[1].im.id) = 1

\* C17: after purge_cache, whatever cache and cache_frames held before,
\* cache is absent, cache_frames is empty and every bitmap either held
\* has been closed.
C17_PurgeCacheAll ==
    last.op = "purge_cache" =>
        /\ cache = None
        /\ cache_frames = <<>>
        /\ \A id \in PreCacheIds : CloseCount(id) >= 1

\* C18: the bitmap held as the original is never a closed one.
C18_OriginalNotReleased == im # None => im \notin closed

\* C19: a load that raises leaves every field of the Mage as it was and
\* closes no bitmap.
C19_FailedLoadChangesNothing ==
    (last.op = "load" /\ last.err # "") => (Cur = pre /\ NoClose)

====
